---- MODULE Spec2Model ----
(***************************************************************************)
(* Model of the lazy modal registry of packages/shared                     *)
(* (src/packages/shared/src/components/modals/common.tsx).                 *)
(*                                                                         *)
(* Two parts:                                                              *)
(*  - the deferred loaders: nine module-level components created by        *)
(*    dynamic(() => import(...)) and collected in the `modals` object;     *)
(*  - the request type LazyModalType<K>, a type-level function of the      *)
(*    props declared by the component registered under K.  A request       *)
(*    {type, props?} is "built" when it is assignable to that type.        *)
(***************************************************************************)
EXTENDS Naturals, Integers, Sequences, FiniteSets, TLC

VARIABLES modals, memo, fetches, inflight, loaded, calls, preloaded, waiting, got,
          via, closed, request, menu

\* modals    the registry object: identifier -> dynamic component
\* memo      per identifier, the state of its component's load record:
\*           "NotLoaded" (never used), "Loading" (import pending),
\*           "Loaded" (import fulfilled), "Failed" (import rejected)
\* fetches   per identifier, how many times its import thunk was invoked
\* inflight  per identifier, how many of those imports have not settled
\* loaded    per identifier, the number of the fetch whose module is held
\*           (0: none)
\* calls     per identifier, how many times its loader was called on: by a
\*           caller using its component, or by a preload of the framework
\* preloaded per identifier, how many of those calls were preloads
\* waiting   per caller, the identifier it is suspended on, or "none"
\* got       per caller, what its last use produced (NoOutcome while suspended)
\* via       per caller, how its last use was served
\* closed    per caller, whether the host closed the modal it mounted while
\*           the caller was suspended (its component was unmounted)
\* request   the request value offered for type checking and its result
\* menu      the SquadMemberMenu component (src/unnamed/part_000)
vars == <<modals, memo, fetches, inflight, loaded, calls, preloaded, waiting, got,
          via, closed, request, menu>>

\* the menu component is left alone by the registry, and the other way
\* round
uiVars == <<menu>>
coreVars == <<modals, memo, fetches, inflight, loaded, calls, preloaded, waiting, got,
              via, closed, request>>

(***************************************************************************)
(* Bounds                                                                  *)
(***************************************************************************)
\* number of concurrent callers (mount sites) of the loaders
NumCallers == 2
\* total number of load calls in one behaviour
MaxCalls == 2

Callers == 1..NumCallers

(***************************************************************************)
(* The registry, common.tsx lines 9-71                                     *)
(***************************************************************************)
\* the identifiers used as keys of `modals`
LazyModal ==
  {"SquadMember", "UpvotedPopup", "SquadTour", "ReadingHistory",
   "SquadPromotion", "CreateSharedPost", "ReportPost", "ReportComment",
   "SquadNotifications"}

\* the component each dynamic(...) call creates, named by the chunk its
\* import thunk fetches
SquadMemberModal == "squadMemberModal"
UpvotedPopupModal == "upvotedPopupModal"
SquadTourModal == "squadTourModal"
SquadPromotionModal == "squadPromotionModal"
ReadingHistoryModal == "readingHistoryModal"
CreateSharedPostModal == "createSharedPostModal"
ReportPostModal == "reportPostModal"
ReportCommentModal == "reportCommentModal"
SquadNotificationsModal == "squadNotificationsModal"

\* the registry with one identifier left unregistered
modalsLiteral_Unregistered ==
  ("SquadMember" :> SquadMemberModal)
    @@ ("UpvotedPopup" :> UpvotedPopupModal)
    @@ ("SquadTour" :> SquadTourModal)
    @@ ("ReadingHistory" :> ReadingHistoryModal)
    @@ ("SquadPromotion" :> SquadPromotionModal)
    @@ ("CreateSharedPost" :> CreateSharedPostModal)
    @@ ("ReportPost" :> ReportPostModal)
    @@ ("ReportComment" :> ReportCommentModal)

\* export const modals = { [LazyModal.X]: XModal, ... }
modalsLiteral ==
  ("SquadMember" :> SquadMemberModal)
    @@ ("UpvotedPopup" :> UpvotedPopupModal)
    @@ ("SquadTour" :> SquadTourModal)
    @@ ("ReadingHistory" :> ReadingHistoryModal)
    @@ ("SquadPromotion" :> SquadPromotionModal)
    @@ ("CreateSharedPost" :> CreateSharedPostModal)
    @@ ("ReportPost" :> ReportPostModal)
    @@ ("ReportComment" :> ReportCommentModal)
    @@ ("SquadNotifications" :> SquadNotificationsModal)

(***************************************************************************)
(* The deferred loaders, common.tsx lines 9-59.                            *)
(*                                                                         *)
(* dynamic is next/dynamic (line 2).  dynamic(loader) creates one          *)
(* component per call, here at module scope, so each component exists      *)
(* once.  The component keeps one load record for its whole life: the      *)
(* first use invokes the loader thunk (the import() that fetches the       *)
(* chunk) and suspends the caller; a use while the import is pending       *)
(* suspends on the same record; once the import settled, later uses read   *)
(* the record, whether it holds the module or the error.  No call site     *)
(* passes a `loading` option or keeps a ref to the component, so nothing   *)
(* can ask it to invoke the thunk again.                                   *)
(*                                                                         *)
(* No call site passes {ssr: false} either, so every loader is also        *)
(* registered with the framework's preloading: the server invokes the      *)
(* thunk of every registered loader before it renders anything             *)
(* (preloadAll), and a hydrating client does so for the loaders the        *)
(* server rendered (preloadReady).  A preload creates the same load        *)
(* record a first use would, with no component rendered.                   *)
(*                                                                         *)
(* A suspended component that is unmounted is taken off the record's       *)
(* subscribers: the import goes on, the record is kept, and the settlement *)
(* is handed, in the promise's one continuation, to the components still   *)
(* subscribed.                                                             *)
(***************************************************************************)
NoOutcome == [kind |-> "none", id |-> "none", attempt |-> 0]
Renderer(id, n) == [kind |-> "renderer", id |-> id, attempt |-> n]
LoadFailure(id, n) == [kind |-> "failure", id |-> id, attempt |-> n]

TotalCalls == LET RECURSIVE Sum(_)
                  Sum(S) == IF S = {} THEN 0
                            ELSE LET x == CHOOSE y \in S : TRUE
                                 IN calls[x] + Sum(S \ {x})
              IN Sum(LazyModal)

\* the import thunk runs: the chunk fetch starts
StartFetch(id) ==
  /\ memo' = [memo EXCEPT ![id] = "Loading"]
  /\ fetches' = [fetches EXCEPT ![id] = @ + 1]
  /\ inflight' = [inflight EXCEPT ![id] = @ + 1]

\* first use of the component: the thunk is invoked and the caller suspends
BeginLoad(c, id) ==
  /\ StartFetch(id)
  /\ waiting' = [waiting EXCEPT ![c] = id]
  /\ got' = [got EXCEPT ![c] = NoOutcome]
  /\ via' = [via EXCEPT ![c] = "fetch"]

\* a use that starts a second fetch while one is in flight
JoinLoad_Duplicate(c, id) == BeginLoad(c, id)

\* use while the fetch is in flight: the caller suspends on the same record
JoinLoad(c, id) ==
  /\ waiting' = [waiting EXCEPT ![c] = id]
  /\ got' = [got EXCEPT ![c] = NoOutcome]
  /\ via' = [via EXCEPT ![c] = "join"]
  /\ UNCHANGED <<memo, fetches, inflight>>

\* a use that fetches again although the module is loaded
ReadLoaded_Refetch(c, id) == BeginLoad(c, id)

\* use after the fetch fulfilled: the loaded module is rendered at once
ReadLoaded(c, id) ==
  /\ got' = [got EXCEPT ![c] = Renderer(id, loaded[id])]
  /\ via' = [via EXCEPT ![c] = "memo"]
  /\ UNCHANGED <<memo, fetches, inflight, waiting>>

\* use after the fetch rejected: the recorded error is what the caller gets
ReadFailed(c, id) ==
  /\ got' = [got EXCEPT ![c] = LoadFailure(id, fetches[id])]
  /\ via' = [via EXCEPT ![c] = "stale"]
  /\ UNCHANGED <<memo, fetches, inflight, waiting>>

\* a caller uses the component registered under id (load(id)); via[c] keeps
\* how the call was served: it started the fetch, joined the fetch in
\* flight, read the loaded module, or read the recorded failure
Load(c, id) ==
  /\ waiting[c] = "none"
  /\ TotalCalls < MaxCalls
  /\ calls' = [calls EXCEPT ![id] = @ + 1]
  /\ CASE memo[id] = "NotLoaded" -> BeginLoad(c, id)
       [] memo[id] = "Loading" -> JoinLoad(c, id)
       [] memo[id] = "Loaded" -> ReadLoaded(c, id)
       [] memo[id] = "Failed" -> ReadFailed(c, id)
  /\ closed' = [closed EXCEPT ![c] = FALSE]
  /\ UNCHANGED <<modals, loaded, request>>
  /\ UNCHANGED <<preloaded, menu>>

\* the framework preloads the loader of id (preloadAll on the server,
\* preloadReady on a hydrating client): a loader without a record has its
\* thunk invoked, with no caller; a loader that has a record is left as it is
Preload(id) ==
  /\ memo[id] = "NotLoaded"
  /\ TotalCalls < MaxCalls
  /\ calls' = [calls EXCEPT ![id] = @ + 1]
  /\ preloaded' = [preloaded EXCEPT ![id] = @ + 1]
  /\ StartFetch(id)
  /\ UNCHANGED <<modals, loaded, waiting, got, via, closed, request, menu>>

\* modals[id]: the registry entry is read, nothing else happens
Resolve(id) ==
  /\ id \in DOMAIN modals
  /\ UNCHANGED vars

\* every caller still suspended on id (its component still mounted) is
\* resumed with the same outcome, in the one continuation of the import
\* promise
Settle(id, outcome) ==
  /\ got' = [c \in Callers |-> IF waiting[c] = id THEN outcome ELSE got[c]]
  /\ waiting' = [c \in Callers |-> IF waiting[c] = id THEN "none" ELSE waiting[c]]

\* an unmount that also drops the pending import of the component
Close_CancelsImport(c) ==
  /\ waiting[c] # "none"
  /\ waiting' = [waiting EXCEPT ![c] = "none"]
  /\ closed' = [closed EXCEPT ![c] = TRUE]
  /\ memo' = [memo EXCEPT ![waiting[c]] = "NotLoaded"]
  /\ inflight' = [inflight EXCEPT ![waiting[c]] = 0]
  /\ UNCHANGED <<modals, fetches, loaded, calls, got, via, request>>
  /\ UNCHANGED <<preloaded, menu>>

\* the host closes the modal a suspended caller mounted: the dynamic
\* component is unmounted and taken off the subscribers of its load record,
\* so the caller will be handed nothing; the import and the record are not
\* touched, common.tsx gives the host nothing to stop them
Close(c) ==
  /\ waiting[c] # "none"
  /\ waiting' = [waiting EXCEPT ![c] = "none"]
  /\ closed' = [closed EXCEPT ![c] = TRUE]
  /\ UNCHANGED <<modals, memo, fetches, inflight, loaded, calls, got, via, request>>
  /\ UNCHANGED <<preloaded, menu>>

\* the import promise of id's chunk fulfils
FetchResolve(id) ==
  /\ memo[id] = "Loading"
  /\ memo' = [memo EXCEPT ![id] = "Loaded"]
  /\ inflight' = [inflight EXCEPT ![id] = @ - 1]
  /\ loaded' = [loaded EXCEPT ![id] = fetches[id]]
  /\ Settle(id, Renderer(id, fetches[id]))
  /\ UNCHANGED <<modals, fetches, calls, via, closed, request>>
  /\ UNCHANGED <<preloaded, menu>>

\* a rejection after which the component invokes the thunk again by itself
FetchReject_AutoRetry(id) ==
  /\ memo[id] = "Loading"
  /\ fetches' = [fetches EXCEPT ![id] = @ + 1]
  /\ UNCHANGED <<modals, memo, inflight, loaded, calls, waiting, got, via, closed, request>>
  /\ UNCHANGED <<preloaded, menu>>

\* a rejection that forgets the attempt instead of recording the failure
FetchReject_ClearMemo(id) ==
  /\ memo[id] = "Loading"
  /\ memo' = [memo EXCEPT ![id] = "NotLoaded"]
  /\ inflight' = [inflight EXCEPT ![id] = @ - 1]
  /\ Settle(id, LoadFailure(id, fetches[id]))
  /\ UNCHANGED <<modals, fetches, loaded, calls, via, closed, request>>
  /\ UNCHANGED <<preloaded, menu>>

\* the import promise of id's chunk rejects
FetchReject(id) ==
  /\ memo[id] = "Loading"
  /\ memo' = [memo EXCEPT ![id] = "Failed"]
  /\ inflight' = [inflight EXCEPT ![id] = @ - 1]
  /\ Settle(id, LoadFailure(id, fetches[id]))
  /\ UNCHANGED <<modals, fetches, loaded, calls, via, closed, request>>
  /\ UNCHANGED <<preloaded, menu>>

(***************************************************************************)
(* The request type, common.tsx lines 73-110.                              *)
(*                                                                         *)
(* An object type is a function from its property names to "required" or   *)
(* "optional".  The props a registered component declares live in its own  *)
(* module, so they are an input here: every combination over a small       *)
(* property universe.  isOpen and onRequestClose are the two props the     *)
(* modal host supplies.                                                    *)
(***************************************************************************)
Marks == {"required", "optional"}

\* props a component may declare besides the two lifecycle props
OwnProps == {"title", "subtitle"}
\* a property no component of the model declares
ExtraProp == "extra"
PropNames == {"isOpen", "onRequestClose"} \cup OwnProps
ValueProps == PropNames \cup {ExtraProp}

\* the declared props of a component: isOpen is required, onRequestClose
\* and the own props are present with either marking or (own props) absent
DeclaredProps ==
  UNION { [ {"isOpen", "onRequestClose"} \cup own -> Marks ] : own \in SUBSET OwnProps }

ComponentTypes == { T \in DeclaredProps : T["isOpen"] = "required" }

\* a component type: the chunk dynamic() wraps and the props P it accepts
ComponentType(chunk, P) == [chunk |-> chunk, P |-> P]

\* type GetComponentProps<T> = T extends ComponentType<infer P> ? P : never
GetComponentProps(T) == T.P

\* Pick<T, K>: a homomorphic mapped type, markings are kept
Pick(T, K) == [f \in (K \cap DOMAIN T) |-> T[f]]

\* Omit<T, K> = Pick<T, Exclude<keyof T, K>>
Omit(T, K) == Pick(T, DOMAIN T \ K)

\* type LazyModalComponentType<K> =
\*   Omit<GetComponentProps<ModalsType[K]>, 'isOpen' | 'onRequestClose'>
LazyModalComponentType(component) ==
  Omit(GetComponentProps(component), {"isOpen", "onRequestClose"})

\* Record<string, never> extends T: the source has no known property, so it
\* is assignable exactly when no property of T is required
RecordNeverExtends(T) == \A f \in DOMAIN T : T[f] = "optional"

\* T extends Record<string, never>: every property of T would have to be
\* assignable to never, so T has no property
ExtendsRecordNever(T) == DOMAIN T = {}

\* type RequiredKeys<T> = { [K in keyof T]:
\*   Record<string, never> extends { [P in K]: T[K] } ? never : K }[keyof T]
RequiredKeys(T) == { K \in DOMAIN T : ~RecordNeverExtends(Pick(T, {K})) }

\* type NonOptional<T> = Pick<T, RequiredKeys<T>>
NonOptional(T) == Pick(T, RequiredKeys(T))

\* type LazyModalType<K>: the conditional type picks `props?` or `props`
LazyModalType(K, component) ==
  [type |-> K,
   propsOptional |-> ExtendsRecordNever(NonOptional(LazyModalComponentType(component))),
   props |-> LazyModalComponentType(component)]

(***************************************************************************)
(* Values offered as a request: {type} or {type, props}.  `fresh` tells    *)
(* whether props is written as an object literal in place (the compiler    *)
(* checks a literal for excess properties) or is an existing value.        *)
(***************************************************************************)
NoProps == [present |-> FALSE, fields |-> {}, fresh |-> TRUE]
Props(fields, fresh) == [present |-> TRUE, fields |-> fields, fresh |-> fresh]
PropsValues ==
  {NoProps} \cup { Props(fs, fr) : fs \in SUBSET ValueProps, fr \in BOOLEAN }

MissingPayload == [kind |-> "MissingPayload", field |-> "props"]
MissingField(f) == [kind |-> "MissingField", field |-> f]
UnknownField(f) == [kind |-> "UnknownField", field |-> f]

\* an object type whose properties are all optional (and has at least one)
IsWeakType(T) == DOMAIN T # {} /\ \A f \in DOMAIN T : T[f] = "optional"

\* the properties of a props value that the target type T does not accept:
\* - a literal is checked for excess properties unless T is the empty
\*   object type;
\* - any value that shares no property with a weak T is rejected
ExcessProperties(T, value) ==
  IF value.fresh /\ DOMAIN T # {}
    THEN value.fields \ DOMAIN T
    ELSE IF IsWeakType(T) /\ value.fields # {} /\ value.fields \cap DOMAIN T = {}
           THEN value.fields
           ELSE {}

\* a check that wants every property of T, optional ones too
PropsViolations_AllKeys(T, value) ==
  { MissingField(f) : f \in DOMAIN T \ value.fields }
    \cup { UnknownField(f) : f \in ExcessProperties(T, value) }

\* the reasons a props value is not assignable to the props type T
PropsViolations(T, value) ==
  { MissingField(f) : f \in RequiredKeys(T) \ value.fields }
    \cup { UnknownField(f) : f \in ExcessProperties(T, value) }

\* the reasons {type: K, props: value} is not a LazyModalType<K>;
\* the request is accepted when there is none
buildRequest(K, component, value) ==
  LET target == LazyModalType(K, component)
  IN IF ~value.present
       THEN IF target.propsOptional THEN {} ELSE {MissingPayload}
       ELSE PropsViolations(target.props, value)

\* a request value as a caller wrote it, not yet checked; `declared` is the
\* props the component registered under K declares
Offered(K, declared, value) ==
  [type |-> K, declared |-> declared, value |-> value,
   checked |-> FALSE, target |-> <<>>, violations |-> {}]

\* a check that also starts the fetch of the variant it is for
BuildRequest_Preload ==
  /\ request.type \in DOMAIN modals
  /\ ~request.checked
  /\ request' =
       [request EXCEPT
          !.checked = TRUE,
          !.target = LazyModalType(request.type,
                                   ComponentType(modals[request.type], request.declared)),
          !.violations = buildRequest(request.type,
                                      ComponentType(modals[request.type], request.declared),
                                      request.value)]
  /\ IF memo[request.type] = "NotLoaded"
       THEN StartFetch(request.type)
       ELSE UNCHANGED <<memo, fetches, inflight>>
  /\ UNCHANGED <<modals, loaded, calls, waiting, got, via, closed>>
  /\ UNCHANGED <<preloaded, menu>>

\* the offered request is checked against LazyModalType<K>
BuildRequest ==
  /\ request.type \in DOMAIN modals
  /\ ~request.checked
  /\ request' =
       [request EXCEPT
          !.checked = TRUE,
          !.target = LazyModalType(request.type,
                                   ComponentType(modals[request.type], request.declared)),
          !.violations = buildRequest(request.type,
                                      ComponentType(modals[request.type], request.declared),
                                      request.value)]
  /\ UNCHANGED <<modals, memo, fetches, inflight, loaded, calls, waiting, got, via, closed>>
  /\ UNCHANGED <<preloaded, menu>>

NoRequest == [type |-> "none", declared |-> <<>>, value |-> NoProps,
              checked |-> FALSE, target |-> <<>>, violations |-> {}]

(***************************************************************************)
(* The test harness of src/__tests__/DeletePostModal.tsx: what the test    *)
(* itself sets up.  The handlers of the component it renders               *)
(* (components/DeletePostModal) are not among the modelled sources, so     *)
(* what a click on Cancel or on Delete does is not modelled.               *)
(***************************************************************************)
\* post identifiers; the test renders postId 'p1'
PostIds == {"p1", "p2"}

\* const defaultProps: postId 'p1', isOpen true, ariaHideApp false;
\* onRequestClose is a jest.fn() that records its calls and closes nothing
\* (test lines 17-22)
defaultProps == [postId |-> "p1", isOpen |-> TRUE, ariaHideApp |-> FALSE]

\* {...base, ...over}: every key of either, the value of over where it has
\* the key
Spread(base, over) ==
  [k \in DOMAIN base \cup DOMAIN over |-> IF k \in DOMAIN over THEN over[k] ELSE base[k]]

\* Partial<Props>: any of the props, each with any value
PartialProps ==
  { [k \in S |-> full[k]] :
      S \in SUBSET DOMAIN defaultProps,
      full \in [postId : PostIds, isOpen : BOOLEAN, ariaHideApp : BOOLEAN] }

\* renderComponent(props, mocks): {...defaultProps, ...props} given to the
\* modal, inside a MockedProvider holding mocks, the ids whose deletePost
\* has a mocked result
renderComponent(props, mocks) ==
  [rendered |-> TRUE,
   postId   |-> Spread(defaultProps, props).postId,
   isOpen   |-> Spread(defaultProps, props).isOpen,
   ariaHideApp |-> Spread(defaultProps, props).ariaHideApp,
   mocks    |-> mocks]

\* MockedProvider: a request with a mock of the same query and variables
\* gets that mock's result, any other request an error (test lines 40-56)
MockedResponse(mocks, id) == IF id \in mocks THEN "result" ELSE "error"

(***************************************************************************)
(* SquadMemberMenu, src/unnamed/part_000                                   *)
(***************************************************************************)
\* enum MenuItemTitle, lines 28-34
PromoteToAdmin == "Make admin"
PromoteToModerator == "Promote to moderator"
DemoteToModerator == "Demote to moderator"
DemoteToMember == "Demote to member"
BlockMember == "Block member"
MenuItemTitle ==
  {PromoteToAdmin, PromoteToModerator, DemoteToModerator, DemoteToMember, BlockMember}

\* the label of the one option that is a link, line 174
ReportMember == "Report member"

\* enum SourceMemberRole (graphql/sources, not under src/): the roles the
\* component names are Admin, Moderator, Member and Blocked
SourceMemberRole == {"admin", "moderator", "member", "blocked"}

\* enum SourcePermissions: the two permissions the component asks for
MemberRoleUpdate == "member_role_update"
MemberRemove == "member_remove"
SourcePermissions == {MemberRoleUpdate, MemberRemove}

\* const toastDescription: Partial<Record<MenuItemTitle, string>>, lines 52-54
toastDescription == (BlockMember :> "Member has been blocked")

\* a menu item: its label and, for an item with an action, the role and
\* title its action was made with; the Report member item is a link
MenuItem(label, action) == [label |-> label, action |-> action]
NoAction == [role |-> "none", title |-> "none"]

\* the moderator branch returning the fall-through list
getUpdateRoleOptions_FallsThrough(member, getUpdateRoleFn) ==
  LET promoteToAdmin == MenuItem(PromoteToAdmin, getUpdateRoleFn["admin", PromoteToAdmin])
      promoteToModerator ==
        MenuItem(PromoteToModerator, getUpdateRoleFn["moderator", PromoteToModerator])
      demoteToModerator ==
        MenuItem(DemoteToModerator, getUpdateRoleFn["moderator", DemoteToModerator])
      demoteToMember == MenuItem(DemoteToMember, getUpdateRoleFn["member", DemoteToMember])
  IN  IF member.role = "admin" THEN <<demoteToModerator, demoteToMember>>
      ELSE <<promoteToAdmin, promoteToModerator>>

\* getUpdateRoleOptions(member, getUpdateRoleFn), lines 61-110
getUpdateRoleOptions(member, getUpdateRoleFn) ==
  LET promoteToAdmin == MenuItem(PromoteToAdmin, getUpdateRoleFn["admin", PromoteToAdmin])
      promoteToModerator ==
        MenuItem(PromoteToModerator, getUpdateRoleFn["moderator", PromoteToModerator])
      demoteToModerator ==
        MenuItem(DemoteToModerator, getUpdateRoleFn["moderator", DemoteToModerator])
      demoteToMember == MenuItem(DemoteToMember, getUpdateRoleFn["member", DemoteToMember])
  IN  IF member.role = "admin" THEN <<demoteToModerator, demoteToMember>>
      ELSE IF member.role = "moderator" THEN <<promoteToAdmin, demoteToMember>>
      ELSE <<promoteToAdmin, promoteToModerator>>

\* verifyPermission(squad, permission) of graphql/squads: the permission is
\* among those the squad grants the current member
verifyPermission(squad, permission) == permission \in squad.permissions

\* getUpdateRoleFn of the memo callback, lines 156-158: the action made for
\* (role, title) calls onUpdateMember(role, title)
getUpdateRoleFn ==
  [role \in SourceMemberRole, title \in MenuItemTitle |-> [role |-> role, title |-> title]]

\* a callback that always offers the role actions
computeOptions_NoGate(squad, member, user) ==
  IF ~member.present \/ ~user THEN <<>>
  ELSE getUpdateRoleOptions(member, getUpdateRoleFn)
         \o <<MenuItem(ReportMember, NoAction)>>
         \o (IF verifyPermission(squad, MemberRoleUpdate)
                 \/ (verifyPermission(squad, MemberRemove) /\ member.role = "member")
             THEN <<MenuItem(BlockMember, getUpdateRoleFn["blocked", BlockMember])>>
             ELSE <<>>)

\* the callback given to useMemo, lines 153-197
computeOptions(squad, member, user) ==
  IF ~member.present \/ ~user THEN <<>>
  ELSE LET canUpdateRole == verifyPermission(squad, MemberRoleUpdate)
           canRemoveMember ==
             canUpdateRole \/ (verifyPermission(squad, MemberRemove)
                                 /\ member.role = "member")
       IN  (IF canUpdateRole THEN getUpdateRoleOptions(member, getUpdateRoleFn) ELSE <<>>)
             \o <<MenuItem(ReportMember, NoAction)>>
             \o (IF canRemoveMember
                 THEN <<MenuItem(BlockMember, getUpdateRoleFn["blocked", BlockMember])>>
                 ELSE <<>>)

\* the member prop: absent, or an object with a role; ref is the object's
\* identity, which is all the dependency comparison of useMemo looks at:
\* two objects of the same content have two refs, and one object whose role
\* was changed in place keeps its ref
NoMember == [present |-> FALSE, role |-> "none", ref |-> 0]
MemberObjects == { [present |-> TRUE, role |-> r, ref |-> k] : r \in SourceMemberRole, k \in 1..2 }
MemberProps == {NoMember} \cup MemberObjects
SquadProps == { [permissions |-> ps] : ps \in SUBSET SourcePermissions }

\* useMemo(callback, [member]), lines 153 and 200: the callback runs on the
\* first render and on a render whose member is not the same object
\* (Object.is) as the member of the last run; otherwise the list of the
\* last run is kept, whatever has become of that object, of squad and of
\* user.  deps is the identity compared; member, squad and user are what
\* the last run of the callback read
useMemo(m, squad, member, user) ==
  IF m.rendered /\ member.ref = m.memo.deps THEN m.memo
  ELSE [options |-> computeOptions(squad, member, user),
        deps |-> member.ref, member |-> member, squad |-> squad, user |-> user]

\* one render of SquadMemberMenu with props squad and member and the user
\* of AuthContext; flows and log belong to onUpdateMember
SquadMemberMenu(m, squad, member, user) ==
  [rendered |-> TRUE,
   squad |-> squad, member |-> member, user |-> user,
   memo |-> useMemo(m, squad, member, user),
   flows |-> IF m.rendered THEN m.flows ELSE <<>>,
   log |-> IF m.rendered THEN m.log ELSE <<>>]

\* the component renders, for the first time or again
Render(squad, member, user) ==
  /\ menu' = SquadMemberMenu(menu, squad, member, user)
  /\ UNCHANGED coreVars

\* number of options chosen on one rendered menu
MaxChoices == 2

\* what onUpdateMember does to the outside: the prompt it shows, the
\* update it asks for, the toast it displays; flow numbers the call
ShowPrompt(flow, title) == [ev |-> "showPrompt", flow |-> flow, title |-> title, role |-> "none"]
UpdateRoleCalled(flow, role) ==
  [ev |-> "onUpdateRole", flow |-> flow, title |-> "none", role |-> role]
ToastDisplayed(flow, title) ==
  [ev |-> "displayToast", flow |-> flow, title |-> title, role |-> "none"]

\* onUpdateMember(role, title) up to its first await, lines 120-139: the
\* prompt is shown and the call waits for the answer
onUpdateMember(m, role, title) ==
  [m EXCEPT !.flows = Append(@, [role |-> role, title |-> title,
                                 pc |-> "prompt", answer |-> "none"]),
            !.log = Append(@, ShowPrompt(Len(m.flows) + 1, title))]

\* a continuation that updates whatever the answer
afterPrompt_IgnoresAnswer(m, f, hasConfirmed) ==
  [m EXCEPT !.flows[f].pc = "updating",
            !.flows[f].answer = IF hasConfirmed THEN "confirmed" ELSE "declined",
            !.log = Append(@, UpdateRoleCalled(f, m.flows[f].role))]

\* onUpdateMember after the prompt has answered, lines 141-147: return when
\* not confirmed, else call onUpdateRole and wait for it
afterPrompt(m, f, hasConfirmed) ==
  IF ~hasConfirmed
  THEN [m EXCEPT !.flows[f].pc = "returned", !.flows[f].answer = "declined"]
  ELSE [m EXCEPT !.flows[f].pc = "updating",
                 !.flows[f].answer = "confirmed",
                 !.log = Append(@, UpdateRoleCalled(f, m.flows[f].role))]

\* onUpdateMember after onUpdateRole has resolved, line 149: a toast when
\* toastDescription has one for the title
afterUpdateRole(m, f) ==
  [m EXCEPT !.flows[f].pc = "done",
            !.log = IF m.flows[f].title \in DOMAIN toastDescription
                    THEN Append(@, ToastDisplayed(f, m.flows[f].title))
                    ELSE @]

\* the user picks the i-th item of the list shown; an item with an action
\* runs it, which calls onUpdateMember(role, title)
ChooseOption(i) ==
  /\ menu.rendered
  /\ i \in 1..Len(menu.memo.options)
  /\ menu.memo.options[i].action # NoAction
  /\ Len(menu.flows) < MaxChoices
  /\ menu' = onUpdateMember(menu, menu.memo.options[i].action.role,
                            menu.memo.options[i].action.title)
  /\ UNCHANGED coreVars

\* the promise of showPrompt resolves with the user's answer
PromptResolve(f, hasConfirmed) ==
  /\ menu.rendered
  /\ f \in 1..Len(menu.flows)
  /\ menu.flows[f].pc = "prompt"
  /\ menu' = afterPrompt(menu, f, hasConfirmed)
  /\ UNCHANGED coreVars

\* the promise of onUpdateRole resolves
UpdateRoleResolve(f) ==
  /\ menu.rendered
  /\ f \in 1..Len(menu.flows)
  /\ menu.flows[f].pc = "updating"
  /\ menu' = afterUpdateRole(menu, f)
  /\ UNCHANGED coreVars

\* the promise of onUpdateRole rejects: the await throws and
\* onUpdateMember ends there
UpdateRoleReject(f) ==
  /\ menu.rendered
  /\ f \in 1..Len(menu.flows)
  /\ menu.flows[f].pc = "updating"
  /\ menu' = [menu EXCEPT !.flows[f].pc = "threw"]
  /\ UNCHANGED coreVars

\* the menu before its first render
NoMenu == [rendered |-> FALSE]

\* the registry as the module leaves it: nothing used, nothing loaded
InitRegistry ==
  /\ modals = modalsLiteral
  /\ memo = [id \in LazyModal |-> "NotLoaded"]
  /\ fetches = [id \in LazyModal |-> 0]
  /\ inflight = [id \in LazyModal |-> 0]
  /\ loaded = [id \in LazyModal |-> 0]
  /\ calls = [id \in LazyModal |-> 0]
  /\ preloaded = [id \in LazyModal |-> 0]
  /\ waiting = [c \in Callers |-> "none"]
  /\ got = [c \in Callers |-> NoOutcome]
  /\ via = [c \in Callers |-> "none"]
  /\ closed = [c \in Callers |-> FALSE]

InitLoader ==
  /\ InitRegistry
  /\ menu = NoMenu

InitLoaderOnly ==
  /\ InitLoader
  /\ request = NoRequest

LoaderNext ==
  \/ \E c \in Callers, id \in DOMAIN modals : Load(c, id)
  \/ \E id \in DOMAIN modals : Preload(id)
  \/ \E id \in DOMAIN modals : FetchResolve(id)
  \/ \E id \in DOMAIN modals : FetchReject(id)

SpecLoader == InitLoaderOnly /\ [][LoaderNext]_vars

\* the loaders with a host that may close a modal while it loads, and
\* imports that settle: a pending import eventually fulfils or rejects
LoaderHostNext ==
  \/ LoaderNext
  \/ \E c \in Callers : Close(c)

SpecLoaderFair ==
  /\ InitLoaderOnly
  /\ [][LoaderHostNext]_vars
  /\ \A id \in LazyModal : WF_vars(FetchResolve(id) \/ FetchReject(id))

\* the requests offered: every identifier, every declared props type,
\* every props value
InitRequest ==
  /\ InitLoader
  /\ request \in { Offered(K, declared, value) :
                     K \in LazyModal, declared \in ComponentTypes, value \in PropsValues }

RequestNext == BuildRequest

SpecRequest == InitRequest /\ [][RequestNext]_vars

\* a component that declares {title, subtitle?} besides the lifecycle props
ExampleDeclared ==
  [f \in PropNames |-> IF f \in {"isOpen", "title"} THEN "required" ELSE "optional"]

\* loaders and one request together: the request is for ReportPost, without
\* props or with the props literal {title}
Init ==
  /\ InitLoader
  /\ request \in { Offered("ReportPost", ExampleDeclared, value) :
                     value \in {NoProps, Props({"title"}, TRUE)} }

Next ==
  \/ LoaderNext
  \/ \E id \in LazyModal : Resolve(id)
  \/ RequestNext

Spec == Init /\ [][Next]_vars

\* the menu alone, rendered and rendered again with any props
InitMenu ==
  /\ InitRegistry
  /\ request = NoRequest
  /\ menu = NoMenu

MenuRenderNext ==
  \E squad \in SquadProps, member \in MemberProps, user \in BOOLEAN :
    Render(squad, member, user)

SpecMenu == InitMenu /\ [][MenuRenderNext]_vars

\* the menu rendered once with any props, then used
InitMenuFlow ==
  /\ InitRegistry
  /\ request = NoRequest
  /\ menu \in { SquadMemberMenu(NoMenu, squad, member, user) :
                  squad \in SquadProps, member \in MemberProps, user \in BOOLEAN }

MenuFlowNext ==
  \/ \E i \in DOMAIN menu.memo.options : ChooseOption(i)
  \/ \E f \in 1..MaxChoices, hasConfirmed \in BOOLEAN : PromptResolve(f, hasConfirmed)
  \/ \E f \in 1..MaxChoices : UpdateRoleResolve(f)
  \/ \E f \in 1..MaxChoices : UpdateRoleReject(f)

SpecMenuFlow == InitMenuFlow /\ [][MenuFlowNext]_vars

(***************************************************************************)
(* Properties of the deferred loaders                                      *)
(***************************************************************************)

\* C1: single flight.  While the fetch of an identifier is in flight exactly
\* one fetch is outstanding for it, a further load of that identifier starts
\* no fetch, and callers suspended on the same identifier are resumed
\* together with the same outcome.
C1_SingleFlight ==
  /\ [](\A id \in LazyModal :
          inflight[id] = (IF memo[id] = "Loading" THEN 1 ELSE 0))
  /\ [][\A id \in LazyModal :
          memo[id] = "Loading" => fetches'[id] = fetches[id]]_vars
  /\ [][\A c, d \in Callers :
          (waiting[c] # "none" /\ waiting[c] = waiting[d])
            => (got'[c] = got'[d] /\ waiting'[c] = waiting'[d])]_vars

\* two callers overlapped on one identifier and both hold the one outcome
C1_Witness ==
  \E c, d \in Callers :
    /\ c # d
    /\ via[c] = "fetch" /\ via[d] = "join"
    /\ got[c].kind = "renderer" /\ got[d] = got[c]
    /\ calls[got[c].id] = 2 /\ fetches[got[c].id] = 1

\* C2: memoization.  An identifier whose first fetch succeeded stays loaded,
\* is never fetched again, and every caller that has its renderer has the
\* instance that first fetch produced.
C2_Memoized ==
  /\ [](\A id \in LazyModal :
          loaded[id] = 1 =>
            /\ memo[id] = "Loaded"
            /\ fetches[id] = 1
            /\ \A c \in Callers :
                 (got[c].kind = "renderer" /\ got[c].id = id) => got[c] = Renderer(id, 1))
  /\ [][\A id \in LazyModal :
          memo[id] = "Loaded" =>
            /\ memo'[id] = "Loaded"
            /\ fetches'[id] = fetches[id]
            /\ loaded'[id] = loaded[id]]_vars

\* a load made after the success was served from the loaded module
C2_Witness ==
  \E c \in Callers, id \in LazyModal :
    /\ via[c] = "memo" /\ got[c] = Renderer(id, 1)
    /\ calls[id] = 2 /\ fetches[id] = 1

\* C3: a failure does not poison the memo.  A load of an identifier whose
\* last fetch failed starts a new fetch, and no caller is handed the earlier
\* failure without a new attempt.
C3_RetryAfterFailure ==
  /\ [][\A id \in LazyModal :
          (memo[id] = "Failed" /\ calls'[id] = calls[id] + 1)
            => fetches'[id] = fetches[id] + 1]_vars
  /\ [](\A c \in Callers : via[c] # "stale")

MemoSteps ==
  { <<"NotLoaded", "Loading">>, <<"Loading", "Loaded">>,
    <<"Loading", "Failed">>, <<"Failed", "Loading">> }

\* C10: every memo starts NotLoaded and changes only along NotLoaded ->
\* Loading, Loading -> Loaded, Loading -> Failed, Failed -> Loading; so
\* Loaded is never left, nothing returns to NotLoaded, and Loaded and Failed
\* are entered from Loading alone.
C10_MemoSteps ==
  /\ \A id \in LazyModal : memo[id] = "NotLoaded"
  /\ [][\A id \in LazyModal :
          memo'[id] # memo[id] => <<memo[id], memo'[id]>> \in MemoSteps]_vars

\* one memo went through Loading to Loaded, another through Loading to Failed
C10_Witness ==
  \E a, b \in LazyModal :
    /\ memo[a] = "Loaded" /\ fetches[a] = 1
    /\ memo[b] = "Failed" /\ fetches[b] = 1

\* the calls of the loader of id made by a caller opening the variant
Opened(id) == calls[id] - preloaded[id]

\* C11: lazy loading.  Building the registry starts no fetch; an identifier
\* that no caller ever opened has no fetch and an untouched memo; and the
\* fetch count of an identifier changes only in a step in which a caller
\* opens that same identifier, by one.  Reading the registry, checking a
\* request and loading another identifier start no fetch for it.
C11_LazyFetch ==
  /\ \A id \in LazyModal : fetches[id] = 0 /\ memo[id] = "NotLoaded"
  /\ [](\A id \in LazyModal :
          Opened(id) = 0 => (fetches[id] = 0 /\ memo[id] = "NotLoaded"))
  /\ [][\A id \in LazyModal :
          fetches'[id] # fetches[id]
            => (Opened(id)' = Opened(id) + 1 /\ fetches'[id] = fetches[id] + 1)]_vars

\* C12: the step that checks a request leaves every memo, every fetch and
\* call count and every caller as they were, and it ends with the request
\* checked: no caller is suspended by it.
C12_BuildRequestFrame ==
  [][(~request.checked /\ request'.checked) =>
        /\ UNCHANGED <<modals, memo, fetches, inflight, loaded, calls>>
        /\ UNCHANGED <<waiting, got, via, closed>>]_vars

\* a request was checked while a load was in flight, and its own variant
\* is still not fetched
C12_Witness ==
  /\ request.checked
  /\ memo[request.type] = "NotLoaded" /\ fetches[request.type] = 0
  /\ \E id \in LazyModal : memo[id] = "Loading"

C15_Original ==
  /\ [][\A id \in LazyModal :
          memo[id] = "Loading" => memo'[id] \in {"Loading", "Loaded", "Failed"}]_vars
  /\ [][\A c \in Callers :
          waiting[c] # "none" =>
            \/ (waiting'[c] = waiting[c] /\ got'[c] = got[c])
            \/ (waiting'[c] = "none" /\ got'[c].kind # "none"
                  /\ got'[c].id = waiting[c])]_vars
  /\ []<>(/\ \A id \in LazyModal : memo[id] # "Loading"
          /\ \A c \in Callers : waiting[c] = "none")

\* C15: run to completion.  A memo leaves Loading only for Loaded or
\* Failed, whether or not a modal was closed meanwhile: closing cancels no
\* import.  A suspended caller stays suspended, or is handed the outcome of
\* the identifier it waits for, or its modal is closed and it is handed
\* nothing, then or later.  The import settling, again and again every
\* started load has settled and no caller is suspended.
C15_RunToCompletion ==
  /\ [][\A id \in LazyModal :
          memo[id] = "Loading" => memo'[id] \in {"Loading", "Loaded", "Failed"}]_vars
  /\ [][\A c \in Callers :
          waiting[c] # "none" =>
            \/ (waiting'[c] = waiting[c] /\ got'[c] = got[c] /\ ~closed'[c])
            \/ (waiting'[c] = "none" /\ ~closed'[c] /\ got'[c].kind # "none"
                  /\ got'[c].id = waiting[c])
            \/ (waiting'[c] = "none" /\ closed'[c] /\ got'[c] = NoOutcome
                  /\ memo'[waiting[c]] = memo[waiting[c]]
                  /\ inflight'[waiting[c]] = inflight[waiting[c]])]_vars
  /\ [](\A c \in Callers : closed[c] => (waiting[c] = "none" /\ got[c] = NoOutcome))
  /\ []<>(/\ \A id \in LazyModal : memo[id] # "Loading"
          /\ \A c \in Callers : waiting[c] = "none")

\* the one caller that opened a variant had its modal closed while the
\* import was pending; the import fulfilled all the same, and the caller
\* holds nothing
C15_Witness ==
  \E c \in Callers, id \in LazyModal :
    /\ closed[c] /\ waiting[c] = "none" /\ got[c] = NoOutcome
    /\ via[c] = "fetch"
    /\ \A d \in Callers \ {c} : via[d] = "none"
    /\ calls[id] = 1 /\ preloaded[id] = 0
    /\ memo[id] = "Loaded" /\ loaded[id] = 1

(***************************************************************************)
(* Properties of the registry                                              *)
(***************************************************************************)
DynamicComponents ==
  {SquadMemberModal, UpvotedPopupModal, SquadTourModal, SquadPromotionModal,
   ReadingHistoryModal, CreateSharedPostModal, ReportPostModal,
   ReportCommentModal, SquadNotificationsModal}

\* C9: the registry maps every identifier to one of the nine components, no
\* two identifiers to the same one, and is the object literal it was built
\* from in every state.
C9_RegistryTotal ==
  /\ DOMAIN modals = LazyModal
  /\ \A K \in LazyModal : modals[K] \in DynamicComponents
  /\ \A K, L \in LazyModal : modals[K] = modals[L] => K = L
  /\ modals = modalsLiteral

\* loads have settled both ways and a request was checked
C9_Witness ==
  /\ \E a, b \in LazyModal : memo[a] = "Loaded" /\ memo[b] = "Failed"
  /\ request.checked
  /\ DOMAIN modals = LazyModal

(***************************************************************************)
(* Properties of the request type.  They are stated on the props the       *)
(* component declares (request.declared), the value offered                *)
(* (request.value) and what BuildRequest produced (request.target,         *)
(* request.violations).                                                    *)
(***************************************************************************)
Lifecycle == {"isOpen", "onRequestClose"}

\* the declared props a caller supplies, and the required ones among them
OwnDeclared(r) == DOMAIN r.declared \ Lifecycle
RequiredOwn(r) == { f \in OwnDeclared(r) : r.declared[f] = "required" }

\* C4 as stated: props may be left out exactly when no caller-supplied
\* property remains after the two lifecycle props are removed.
C4_Original ==
  request.checked => (request.target.propsOptional <=> OwnDeclared(request) = {})

\* whether the variant under id requires props, as the contract table has
\* it: its contract (the declared props without the lifecycle props) is not
\* empty
payloadRequired(r) == OwnDeclared(r) # {}

\* C5 as stated: a request without props is accepted exactly when the
\* contract of its variant is empty, and is otherwise rejected for the
\* missing props alone.
C5_Original ==
  (request.checked /\ ~request.value.present) =>
    /\ (request.violations = {}) <=> ~payloadRequired(request)
    /\ payloadRequired(request) => request.violations = {MissingPayload}

\* C6: with props present, a property is reported missing exactly when the
\* component declares it required, it is not a lifecycle prop, and the props
\* value lacks it; for {title, subtitle?} the value {title} is accepted and
\* {} is rejected for title.
C6_MissingField ==
  (request.checked /\ request.value.present) =>
    /\ \A f \in ValueProps :
         MissingField(f) \in request.violations
           <=> (f \in RequiredOwn(request) /\ f \notin request.value.fields)
    /\ (request.declared = ExampleDeclared /\ request.value.fields = {"title"})
         => request.violations = {}
    /\ (request.declared = ExampleDeclared /\ request.value.fields = {})
         => request.violations = {MissingField("title")}

\* {} offered for {title, subtitle?} was rejected for title
C6_Witness ==
  /\ request.checked /\ request.value.present
  /\ request.declared = ExampleDeclared
  /\ request.value.fields = {}
  /\ request.violations = {MissingField("title")}

\* C7 as stated: every property of the props value outside the contract is
\* reported, so an accepted request carries none.
C7_Original ==
  (request.checked /\ request.value.present) =>
    /\ \A f \in request.value.fields \ OwnDeclared(request) :
         UnknownField(f) \in request.violations
    /\ request.violations = {} => request.value.fields \subseteq OwnDeclared(request)

\* the props type is the declared props without the two lifecycle props,
\* markings kept, and a lifecycle prop is never reported missing
LifecycleSubtracted ==
  /\ request.target.props = [f \in OwnDeclared(request) |-> request.declared[f]]
  /\ \A f \in Lifecycle : MissingField(f) \notin request.violations

\* C8 as stated: the contract is the declared props minus the two lifecycle
\* props, markings kept; a caller is never required to supply them, and a
\* request that supplies one is not accepted.
C8_Original ==
  request.checked =>
    /\ LifecycleSubtracted
    /\ (request.value.present /\ request.value.fields \cap Lifecycle # {})
         => request.violations # {}

(***************************************************************************)
(* Properties of SquadMemberMenu                                           *)
(***************************************************************************)
\* positions of the menu's log that hold a given event of a given call
MenuLogAt(ev, f) == { i \in 1..Len(menu.log) : menu.log[i].ev = ev /\ menu.log[i].flow = f }

\* C18: for every call of onUpdateMember, onUpdateRole is called only
\* after the call's prompt was shown and answered with confirmation, at
\* most once and with the role of the chosen action; a call whose prompt
\* was declined calls no onUpdateRole and shows no toast; a toast is shown
\* only after that call's onUpdateRole, once it has resolved, and only for
\* the Block member action.
C18_ConfirmThenUpdate ==
  menu.rendered =>
    \A f \in 1..Len(menu.flows) :
      /\ \A i \in MenuLogAt("onUpdateRole", f) :
           /\ menu.flows[f].answer = "confirmed"
           /\ menu.log[i].role = menu.flows[f].role
           /\ \E j \in MenuLogAt("showPrompt", f) : j < i
      /\ Cardinality(MenuLogAt("onUpdateRole", f)) <= 1
      /\ menu.flows[f].answer # "confirmed" =>
           /\ MenuLogAt("onUpdateRole", f) = {}
           /\ MenuLogAt("displayToast", f) = {}
      /\ \A i \in MenuLogAt("displayToast", f) :
           /\ menu.flows[f].pc = "done"
           /\ menu.flows[f].title = BlockMember
           /\ \E j \in MenuLogAt("onUpdateRole", f) : j < i
      /\ menu.flows[f].pc \in {"updating", "threw"} => MenuLogAt("displayToast", f) = {}

\* one call declined and one Block member call confirmed and resolved
C18_Witness ==
  /\ menu.rendered
  /\ Len(menu.flows) = 2
  /\ menu.flows[1].answer = "declined"
  /\ menu.flows[2].title = BlockMember /\ menu.flows[2].pc = "done"
  /\ MenuLogAt("displayToast", 2) # {}

\* the two role actions the claim gives for a member role, as target roles
RoleTargets(role) ==
  IF role = "admin" THEN <<"moderator", "member">>
  ELSE IF role = "moderator" THEN <<"admin", "member">>
  ELSE <<"admin", "moderator">>

\* the title the claim gives an action from role to target
RoleTitle(role, target) ==
  IF target = "admin" THEN PromoteToAdmin
  ELSE IF target = "member" THEN DemoteToMember
  ELSE IF role = "admin" THEN DemoteToModerator
  ELSE PromoteToModerator

\* the role actions at the head of a list that has them
RoleActions(options) == SelectSeq(options, LAMBDA o : o.label \in MenuItemTitle \ {BlockMember})

\* C19: whenever the list was computed with the role actions, these are
\* exactly two, in the claim's order for the role the member had when
\* getUpdateRoleOptions was called, none targets that role, and each action
\* carries its own target role and its own title.
C19_RoleOptions ==
  (menu.rendered /\ menu.memo.options # <<>>
     /\ verifyPermission(menu.memo.squad, MemberRoleUpdate)) =>
    LET acts == RoleActions(menu.memo.options)
        role == menu.memo.member.role
    IN  /\ Len(acts) = 2
        /\ \A i \in 1..2 :
             /\ acts[i].action.role = RoleTargets(role)[i]
             /\ acts[i].action.role # role
             /\ acts[i].label = RoleTitle(role, acts[i].action.role)
             /\ acts[i].action.title = acts[i].label
        /\ SubSeq(menu.memo.options, 1, 2) = acts

\* a moderator's list with its two role actions
C19_Witness ==
  /\ menu.rendered
  /\ menu.memo.member.role = "moderator"
  /\ Len(menu.memo.options) = 4
  /\ menu.memo.options[1].label = PromoteToAdmin
  /\ menu.memo.options[2].label = DemoteToMember

\* the labels of a list
Labels(options) == [i \in 1..Len(options) |-> options[i].label]

\* the gating the claim states, for a squad, a member and a user
Gated(squad, member, user) ==
  IF ~member.present \/ ~user THEN <<>>
  ELSE (IF MemberRoleUpdate \in squad.permissions
        THEN [i \in 1..2 |-> RoleTitle(member.role, RoleTargets(member.role)[i])]
        ELSE <<>>)
         \o <<ReportMember>>
         \o (IF MemberRoleUpdate \in squad.permissions
                 \/ (MemberRemove \in squad.permissions /\ member.role = "member")
             THEN <<BlockMember>> ELSE <<>>)

\* C20 as stated: the list shown is always the one gated by the current
\* member, user and squad.
C20_Original ==
  menu.rendered => Labels(menu.memo.options) = Gated(menu.squad, menu.member, menu.user)

\* C20: the list shown is the one gated by the member, the user and the
\* squad as the callback read them on the last render on which member was
\* another object than before (the first render included); that object is
\* still the member prop, with whatever role it has by now.
C20_OptionGating ==
  menu.rendered =>
    /\ menu.memo.deps = menu.member.ref
    /\ Labels(menu.memo.options)
         = Gated(menu.memo.squad, menu.memo.member, menu.memo.user)

\* a list kept from a render on which the squad granted nothing, shown
\* while the squad grants the role update
C20_Witness ==
  /\ menu.rendered
  /\ menu.member.present /\ menu.user /\ menu.memo.user
  /\ menu.memo.squad.permissions = {}
  /\ menu.squad.permissions = {MemberRoleUpdate}
  /\ Labels(menu.memo.options) = <<ReportMember>>

====
